---- MODULE Spec2Model ----
(***************************************************************************)
(* Model of the railway-network graph analytics engine                     *)
(* (src/core/network.py, src/algorithms/graph_algorithms.py, src/app.py).  *)
(*                                                                         *)
(* The graph is built once by create_railway_network from the static city  *)
(* and railway tables; every query operation then reads it.  The networkx  *)
(* routines the source calls (dijkstra_path, astar_path, shortest_path)    *)
(* are modelled by the algorithms they run, including the order in which   *)
(* a dict-of-dicts graph enumerates nodes, neighbours and edges.           *)
(***************************************************************************)
EXTENDS Integers, Sequences, FiniteSets, TLC

VARIABLES CITIES, RAILWAY_EDGES, G, pc, call, result

vars == <<CITIES, RAILWAY_EDGES, G, pc, call, result>>

-----------------------------------------------------------------------------
(* Bounds of the input tables and of the queries.                          *)

\* edge times are drawn from 0..MaxTime
MaxTime == 1
\* edge fares are drawn from 1..MaxCost
MaxCost == 2
\* a multi-stop query carries at most MaxWaypoints waypoints
MaxWaypoints == 1
\* a centrality query asks for the top 0..MaxTopN nodes
MaxTopN == 5

\* float('inf'), the total reported with an unreachable path; every real
\* total is a sum of non-negative weights, so -1 is never a real total
Inf == -1

\* Python None for a path slot (the code only ever tests a path's truth value)
None == <<>>

\* the cities of the table, in table order, and a name that is no city
CityNames == <<"A", "B", "C", "D">>
Absent == "X"

\* city positions: the corners of a 3 x 4 rectangle (all distances integral)
CityPos == [A |-> <<0, 0>>, B |-> <<3, 0>>, C |-> <<3, 4>>, D |-> <<0, 4>>]

\* the pairs a railway table may connect, in table order
PairList == << <<"A", "B">>, <<"B", "C">>, <<"C", "D">>, <<"D", "A">>, <<"A", "C">> >>

TimeVals == 0..MaxTime
CostVals == 1..MaxCost

Range(s) == {s[i] : i \in 1..Len(s)}

\* the rows of a railway table chosen by sel: pair index -> <<>> or <<time, cost>>
RECURSIVE TableRows(_, _)
TableRows(sel, i) ==
    IF i > Len(PairList) THEN <<>>
    ELSE (IF sel[i] = <<>> THEN <<>>
          ELSE << <<PairList[i][1], PairList[i][2], sel[i][1], sel[i][2]>> >>)
         \o TableRows(sel, i + 1)

RowChoices == {<<>>} \cup {<<t, c>> : t \in TimeVals, c \in CostVals}

-----------------------------------------------------------------------------
(* core/network.py                                                         *)

\* nx.Graph(): no nodes, no edges
EmptyGraph == [nodes |-> <<>>, pos |-> <<>>, adj |-> <<>>, data |-> <<>>]

\* G.add_node(city, pos=coords)
add_node(g, city, coords) ==
    IF city \in Range(g.nodes)
    THEN [g EXCEPT !.pos = (city :> coords) @@ @]
    ELSE [g EXCEPT !.nodes = Append(@, city),
                   !.pos = (city :> coords) @@ @,
                   !.adj = (city :> <<>>) @@ @]

\* G.add_edge(u, v, time=, cost=): a new neighbour goes to the end of each
\* endpoint's adjacency; an existing edge only has its data replaced
add_edge(g, u, v, time, cost) ==
    LET d == [time |-> time, cost |-> cost]
        adjU == IF v \in Range(g.adj[u]) THEN g.adj[u] ELSE Append(g.adj[u], v)
        adj1 == (u :> adjU) @@ g.adj
        adjV == IF u \in Range(adj1[v]) THEN adj1[v] ELSE Append(adj1[v], u)
    IN [g EXCEPT !.adj = (v :> adjV) @@ adj1,
                 !.data = (<<u, v>> :> d) @@ (<<v, u>> :> d) @@ @]

RECURSIVE add_cities(_, _, _)
add_cities(g, cities, i) ==
    IF i > Len(cities) THEN g
    ELSE add_cities(add_node(g, cities[i][1], cities[i][2]), cities, i + 1)

RECURSIVE add_railways(_, _, _)
add_railways(g, rows, i) ==
    IF i > Len(rows) THEN g
    ELSE LET r == rows[i]
         IN add_railways(
                IF r[1] \in Range(g.nodes) /\ r[2] \in Range(g.nodes)
                THEN add_edge(g, r[1], r[2], r[3], r[4])
                ELSE g,
                rows, i + 1)

create_railway_network(cities, rows) ==
    add_railways(add_cities(EmptyGraph, cities, 1), rows, 1)

NodeSet(g) == Range(g.nodes)
HasEdge(g, u, v) == <<u, v>> \in DOMAIN g.data

-----------------------------------------------------------------------------
(* algorithms/graph_algorithms.py: path helpers                            *)

RECURSIVE SumWeights(_, _, _, _)
SumWeights(g, path, weight, i) ==
    IF i >= Len(path) THEN 0
    ELSE g.data[<<path[i], path[i + 1]>>][weight] + SumWeights(g, path, weight, i + 1)

get_path_weight(g, path, weight) ==
    IF path = <<>> THEN 0 ELSE SumWeights(g, path, weight, 1)

get_path_details(g, path) ==
    IF path = <<>> \/ Len(path) < 2 THEN <<>>
    ELSE [i \in 1..(Len(path) - 1) |->
            [source |-> path[i], target |-> path[i + 1],
             time |-> g.data[<<path[i], path[i + 1]>>].time,
             cost |-> g.data[<<path[i], path[i + 1]>>].cost]]

-----------------------------------------------------------------------------
(* heapq: a heap of entries ordered by (priority, push counter)            *)

HeapMin(h) ==
    CHOOSE e \in h : \A f \in h : e.d < f.d \/ (e.d = f.d /\ e.c <= f.c)

-----------------------------------------------------------------------------
(* nx.dijkstra_path                                                        *)

\* dijkstra_relax without the "or vu_dist < seen[u]" improvement test
RECURSIVE dijkstra_relax_first_seen(_, _, _, _, _)
dijkstra_relax_first_seen(g, weight, v, i, st) ==
    IF i > Len(g.adj[v]) THEN st
    ELSE LET u == g.adj[v][i]
             vu_dist == st.dist[v] + g.data[<<v, u>>][weight]
         IN IF u \in DOMAIN st.dist \/ u \in DOMAIN st.seen
            THEN dijkstra_relax_first_seen(g, weight, v, i + 1, st)
            ELSE dijkstra_relax_first_seen(g, weight, v, i + 1,
                    [st EXCEPT !.seen = (u :> vu_dist) @@ @,
                               !.fringe = @ \cup {[d |-> vu_dist, c |-> st.c, v |-> u]},
                               !.c = @ + 1,
                               !.paths = (u :> Append(st.paths[v], u)) @@ @])

RECURSIVE dijkstra_relax(_, _, _, _, _)
dijkstra_relax(g, weight, v, i, st) ==
    IF i > Len(g.adj[v]) THEN st
    ELSE LET u == g.adj[v][i]
             vu_dist == st.dist[v] + g.data[<<v, u>>][weight]
         IN IF u \in DOMAIN st.dist
            THEN dijkstra_relax(g, weight, v, i + 1, st)
            ELSE IF u \notin DOMAIN st.seen \/ vu_dist < st.seen[u]
            THEN dijkstra_relax(g, weight, v, i + 1,
                    [st EXCEPT !.seen = (u :> vu_dist) @@ @,
                               !.fringe = @ \cup {[d |-> vu_dist, c |-> st.c, v |-> u]},
                               !.c = @ + 1,
                               !.paths = (u :> Append(st.paths[v], u)) @@ @])
            ELSE dijkstra_relax(g, weight, v, i + 1, st)

RECURSIVE dijkstra_loop(_, _, _, _)
dijkstra_loop(g, weight, target, st) ==
    IF st.fringe = {} THEN st
    ELSE LET e == HeapMin(st.fringe)
             st1 == [st EXCEPT !.fringe = @ \ {e}]
         IN IF e.v \in DOMAIN st1.dist
            THEN dijkstra_loop(g, weight, target, st1)
            ELSE LET st2 == [st1 EXCEPT !.dist = (e.v :> e.d) @@ @]
                 IN IF e.v = target THEN st2
                    ELSE dijkstra_loop(g, weight, target,
                                       dijkstra_relax(g, weight, e.v, 1, st2))

\* return (dist[target], paths[target]), or NetworkXNoPath on the KeyError
dijkstra_result(st, target) ==
    IF target \in DOMAIN st.dist
    THEN [exc |-> "", path |-> st.paths[target]]
    ELSE [exc |-> "NetworkXNoPath", path |-> <<>>]

\* [exc, path]: exc is "" on a normal return
nx_dijkstra_path(g, source, target, weight) ==
    IF source \notin NodeSet(g) THEN [exc |-> "NodeNotFound", path |-> <<>>]
    ELSE IF target = source THEN [exc |-> "", path |-> <<target>>]
    ELSE dijkstra_result(
            dijkstra_loop(g, weight, target,
               [dist |-> <<>>, seen |-> (source :> 0),
                fringe |-> {[d |-> 0, c |-> 0, v |-> source]}, c |-> 1,
                paths |-> (source :> <<source>>)]),
            target)

\* the try/except of astar_shortest_path and dijkstra_shortest_path around the
\* networkx answer r: [exc, path, total, err], exc "" unless an exception
\* leaves the function
weighted_plan(g, r, weight) ==
    IF r.exc = "" THEN [exc |-> "", path |-> r.path,
                        total |-> get_path_weight(g, r.path, weight), err |-> ""]
    ELSE IF r.exc = "NetworkXNoPath"
    THEN [exc |-> "", path |-> None, total |-> Inf, err |-> "no path"]
    ELSE [exc |-> r.exc, path |-> None, total |-> Inf, err |-> ""]

\* the same without an except clause: NetworkXNoPath leaves the function
uncaught_plan(g, r, weight) ==
    IF r.exc = "" THEN [exc |-> "", path |-> r.path,
                        total |-> get_path_weight(g, r.path, weight), err |-> ""]
    ELSE [exc |-> r.exc, path |-> None, total |-> Inf, err |-> ""]

\* dijkstra_shortest_path without the except clause
dijkstra_shortest_path_uncaught(g, start, end, weight) ==
    uncaught_plan(g, nx_dijkstra_path(g, start, end, weight), weight)

dijkstra_shortest_path(g, start, end, weight) ==
    weighted_plan(g, nx_dijkstra_path(g, start, end, weight), weight)

-----------------------------------------------------------------------------
(* nx.shortest_path(G, source, target) without a weight: bidirectional BFS *)

\* st = [pred, succ, fringe, w]: one level of the forward search; w is the
\* meeting node once found ("" before)
RECURSIVE bfs_forward(_, _, _, _)
bfs_forward(g, level, k, st) ==
    IF st.w # "" \/ k > Len(level) THEN st
    ELSE LET v == level[k]
             scan[i \in 0..Len(g.adj[v])] ==
                 IF i = 0 THEN st
                 ELSE LET s == scan[i - 1]
                          w == g.adj[v][i]
                      IN IF s.w # "" THEN s
                         ELSE LET s1 == IF w \notin DOMAIN s.pred
                                        THEN [s EXCEPT !.fringe = Append(@, w),
                                                       !.pred = (w :> v) @@ @]
                                        ELSE s
                              IN IF w \in DOMAIN s1.succ THEN [s1 EXCEPT !.w = w] ELSE s1
         IN bfs_forward(g, level, k + 1, scan[Len(g.adj[v])])

RECURSIVE bfs_reverse(_, _, _, _)
bfs_reverse(g, level, k, st) ==
    IF st.w # "" \/ k > Len(level) THEN st
    ELSE LET v == level[k]
             scan[i \in 0..Len(g.adj[v])] ==
                 IF i = 0 THEN st
                 ELSE LET s == scan[i - 1]
                          w == g.adj[v][i]
                      IN IF s.w # "" THEN s
                         ELSE LET s1 == IF w \notin DOMAIN s.succ
                                        THEN [s EXCEPT !.fringe = Append(@, w),
                                                       !.succ = (w :> v) @@ @]
                                        ELSE s
                              IN IF w \in DOMAIN s1.pred THEN [s1 EXCEPT !.w = w] ELSE s1
         IN bfs_reverse(g, level, k + 1, scan[Len(g.adj[v])])

\* the while loop of _bidirectional_pred_succ; returns [pred, succ, w], w = ""
\* when the fringes run dry (NetworkXNoPath)
RECURSIVE bidirectional_pred_succ(_, _, _, _, _)
RECURSIVE bidirectional_level(_, _, _, _, _)
bidirectional_pred_succ(g, pred, succ, forward_fringe, reverse_fringe) ==
    IF forward_fringe = <<>> \/ reverse_fringe = <<>>
    THEN [pred |-> pred, succ |-> succ, w |-> ""]
    ELSE bidirectional_level(g,
            IF Len(forward_fringe) <= Len(reverse_fringe)
            THEN bfs_forward(g, forward_fringe, 1,
                    [pred |-> pred, succ |-> succ, fringe |-> <<>>, w |-> ""])
            ELSE bfs_reverse(g, reverse_fringe, 1,
                    [pred |-> pred, succ |-> succ, fringe |-> <<>>, w |-> ""]),
            Len(forward_fringe) <= Len(reverse_fringe),
            forward_fringe, reverse_fringe)

\* after one level s (forward or reverse): return on a meeting node, else loop
bidirectional_level(g, s, forward, forward_fringe, reverse_fringe) ==
    IF s.w # "" THEN [pred |-> s.pred, succ |-> s.succ, w |-> s.w]
    ELSE IF forward
    THEN bidirectional_pred_succ(g, s.pred, s.succ, s.fringe, reverse_fringe)
    ELSE bidirectional_pred_succ(g, s.pred, s.succ, forward_fringe, s.fringe)

\* follow a parent map from w to its root ("" plays None)
RECURSIVE chain(_, _)
chain(m, w) == IF w = "" THEN <<>> ELSE <<w>> \o chain(m, m[w])

Reverse(s) == [i \in 1..Len(s) |-> s[Len(s) + 1 - i]]

\* bidirectional_shortest_path: the path through the meeting node r.w
bidirectional_path(r) ==
    IF r.w = "" THEN [exc |-> "NetworkXNoPath", path |-> <<>>]
    ELSE [exc |-> "",
          path |-> Reverse(chain(r.pred, r.w)) \o chain(r.succ, r.succ[r.w])]

nx_shortest_path(g, source, target) ==
    IF source \notin NodeSet(g) \/ target \notin NodeSet(g)
    THEN [exc |-> "NodeNotFound", path |-> <<>>]
    ELSE IF target = source THEN [exc |-> "", path |-> <<source>>]
    ELSE bidirectional_path(
            bidirectional_pred_succ(g, (source :> ""), (target :> ""),
                                    <<source>>, <<target>>))

\* the try/except of bfs_shortest_path around the networkx answer r
hop_plan(r) ==
    IF r.exc = "" THEN [exc |-> "", path |-> r.path,
                        total |-> Len(r.path) - 1, err |-> ""]
    ELSE IF r.exc = "NetworkXNoPath"
    THEN [exc |-> "", path |-> None, total |-> Inf, err |-> "no path"]
    ELSE [exc |-> r.exc, path |-> None, total |-> Inf, err |-> ""]

\* the fastest path in place of the one with the fewest edges
bfs_shortest_path_by_time(g, start, end) ==
    hop_plan(nx_dijkstra_path(g, start, end, "time"))

\* [exc, path, total, err]
bfs_shortest_path(g, start, end) == hop_plan(nx_shortest_path(g, start, end))

-----------------------------------------------------------------------------
(* nx.astar_path with the position heuristic                               *)

\* math.sqrt on the squared distances the positions produce
Sqrt(n) == CHOOSE r \in 0..n : r * r = n

heuristic(u, v, g) ==
    LET p == g.pos[u]
        q == g.pos[v]
    IN Sqrt((p[1] - q[1]) * (p[1] - q[1]) + (p[2] - q[2]) * (p[2] - q[2]))

\* h = lambda u, v: heuristic(u, v, G) if weight == 'time' else 0
astar_h(g, weight, u, v) == IF weight = "time" THEN heuristic(u, v, g) ELSE 0

RECURSIVE astar_expand(_, _, _, _, _, _, _)
astar_expand(g, weight, target, curnode, dist, i, st) ==
    IF i > Len(g.adj[curnode]) THEN st
    ELSE LET neighbor == g.adj[curnode][i]
             ncost == dist + g.data[<<curnode, neighbor>>][weight]
             known == neighbor \in DOMAIN st.enqueued
         IN IF known /\ st.enqueued[neighbor][1] <= ncost
            THEN astar_expand(g, weight, target, curnode, dist, i + 1, st)
            ELSE LET h == IF known THEN st.enqueued[neighbor][2]
                          ELSE astar_h(g, weight, neighbor, target)
                 IN astar_expand(g, weight, target, curnode, dist, i + 1,
                       [st EXCEPT !.enqueued = (neighbor :> <<ncost, h>>) @@ @,
                                  !.queue = @ \cup {[d |-> ncost + h, c |-> st.c,
                                                     v |-> neighbor, dist |-> ncost,
                                                     parent |-> curnode]},
                                  !.c = @ + 1])

\* returns the path, or <<>> when the queue runs dry (NetworkXNoPath)
RECURSIVE astar_loop(_, _, _, _)
astar_loop(g, weight, target, st) ==
    IF st.queue = {} THEN <<>>
    ELSE LET e == HeapMin(st.queue)
             st1 == [st EXCEPT !.queue = @ \ {e}]
         IN IF e.v = target
            THEN Reverse(<<e.v>> \o chain(st1.explored, e.parent))
            ELSE IF /\ e.v \in DOMAIN st1.explored
                    /\ \/ st1.explored[e.v] = ""
                       \/ st1.enqueued[e.v][1] < e.dist
            THEN astar_loop(g, weight, target, st1)
            ELSE astar_loop(g, weight, target,
                    astar_expand(g, weight, target, e.v, e.dist, 1,
                       [st1 EXCEPT !.explored = (e.v :> e.parent) @@ @]))

\* the path found, or NetworkXNoPath after the loop
astar_result(p) ==
    IF p = <<>> THEN [exc |-> "NetworkXNoPath", path |-> <<>>]
    ELSE [exc |-> "", path |-> p]

nx_astar_path(g, source, target, weight) ==
    IF source \notin NodeSet(g) \/ target \notin NodeSet(g)
    THEN [exc |-> "NodeNotFound", path |-> <<>>]
    ELSE astar_result(
            astar_loop(g, weight, target,
               [queue |-> {[d |-> 0, c |-> 0, v |-> source, dist |-> 0,
                            parent |-> ""]},
                c |-> 1, enqueued |-> <<>>, explored |-> <<>>]))

\* [exc, path, total, err]
astar_shortest_path(g, start, end, weight) ==
    weighted_plan(g, nx_astar_path(g, start, end, weight), weight)

-----------------------------------------------------------------------------
(* find_dual_paths                                                         *)

\* a dict with one more key (or an existing key rebound)
Put(d, k, v) == (k :> v) @@ d

\* what a call hands back: a returned value, or an exception that leaves it
Return(v) == [exc |-> "", value |-> v]
Raise(e) == [exc |-> e, value |-> <<>>]

\* the tail of find_dual_paths: the per-segment details of each path present
with_details(g, r) ==
    LET r1 == IF r.time_path # <<>>
              THEN Put(r, "time_details", get_path_details(g, r.time_path)) ELSE r
    IN IF r1.cost_path # <<>>
       THEN Put(r1, "cost_details", get_path_details(g, r1.cost_path)) ELSE r1

\* dual_weighted with the cross-metrics guarded by "len(path) > 1"
dual_weighted_long_paths(g, r0, t, c) ==
    LET r1 == Put(Put(Put(Put(r0, "time_path", t.path), "total_time", t.total),
                      "cost_path", c.path), "total_cost", c.total)
        r2 == IF Len(t.path) > 1
              THEN Put(r1, "time_path_cost", get_path_weight(g, t.path, "cost")) ELSE r1
    IN IF Len(c.path) > 1
       THEN Put(r2, "cost_path_time", get_path_weight(g, c.path, "time")) ELSE r2

\* the astar and the dijkstra branch differ only in the planner they call
dual_weighted(g, r0, t, c) ==
    LET r1 == Put(Put(Put(Put(r0, "time_path", t.path), "total_time", t.total),
                      "cost_path", c.path), "total_cost", c.total)
        r2 == IF t.path # <<>>
              THEN Put(r1, "time_path_cost", get_path_weight(g, t.path, "cost")) ELSE r1
    IN IF c.path # <<>>
       THEN Put(r2, "cost_path_time", get_path_weight(g, c.path, "time")) ELSE r2

\* the bfs branch, from the planner's answer b
dual_bfs(g, r0, b) ==
    IF b.exc # "" THEN Raise(b.exc)
    ELSE IF b.path # <<>>
    THEN Return(with_details(g,
            Put(Put(Put(Put(Put(Put(r0,
                "time_path", b.path),
                "total_time", get_path_weight(g, b.path, "time")),
                "time_path_cost", get_path_weight(g, b.path, "cost")),
                "cost_path", b.path),
                "total_cost", get_path_weight(g, b.path, "cost")),
                "cost_path_time", get_path_weight(g, b.path, "time"))))
    ELSE Return(with_details(g, r0))

\* the astar and the dijkstra branch, from the planner's answers t and c; an
\* exception of either call leaves find_dual_paths
dual_planned(g, r0, t, c) ==
    IF t.exc # "" THEN Raise(t.exc)
    ELSE IF c.exc # "" THEN Raise(c.exc)
    ELSE Return(with_details(g, dual_weighted(g, r0, t, c)))

\* the result container find_dual_paths starts from
dual_container(start, end, algorithm) ==
    [start |-> start, end |-> end, algorithm |-> algorithm,
     time_path |-> None, cost_path |-> None,
     time_details |-> <<>>, cost_details |-> <<>>]

find_dual_paths(g, start, end, algorithm) ==
    IF algorithm = "bfs"
    THEN dual_bfs(g, dual_container(start, end, algorithm),
                  bfs_shortest_path(g, start, end))
    ELSE IF algorithm = "astar"
    THEN dual_planned(g, dual_container(start, end, algorithm),
                      astar_shortest_path(g, start, end, "time"),
                      astar_shortest_path(g, start, end, "cost"))
    ELSE dual_planned(g, dual_container(start, end, algorithm),
                      dijkstra_shortest_path(g, start, end, "time"),
                      dijkstra_shortest_path(g, start, end, "cost"))

-----------------------------------------------------------------------------
(* find_multi_stop_path                                                    *)

RECURSIVE multi_chain(_, _, _, _, _)
RECURSIVE multi_chain_by_time(_, _, _, _, _)

\* one turn of the segment loop, seg the Dijkstra answer for stops i, i+1:
\* an exception ends the chain, a path is joined without its first node
\* (the junction) unless it is the first segment
multi_step(g, points, weight, i, curr_path, seg) ==
    IF seg.exc # "" THEN [exc |-> seg.exc, path |-> <<>>]
    ELSE multi_chain(g, points, weight, i + 1,
            IF i > 1 THEN curr_path \o Tail(seg.path) ELSE curr_path \o seg.path)

multi_step_by_time(g, points, weight, i, curr_path, seg) ==
    IF seg.exc # "" THEN [exc |-> seg.exc, path |-> <<>>]
    ELSE multi_chain_by_time(g, points, weight, i + 1,
            IF i > 1 THEN curr_path \o Tail(seg.path) ELSE curr_path \o seg.path)

\* multi_chain with every segment routed by time, whatever the chain's weight
multi_chain_by_time(g, points, weight, i, curr_path) ==
    IF i > Len(points) - 1 THEN [exc |-> "", path |-> curr_path]
    ELSE multi_step_by_time(g, points, weight, i, curr_path,
            nx_dijkstra_path(g, points[i], points[i + 1], "time"))

\* one chain: the Dijkstra path of every consecutive pair of stops, joined
\* with the repeated junction dropped; [exc, path]
multi_chain(g, points, weight, i, curr_path) ==
    IF i > Len(points) - 1 THEN [exc |-> "", path |-> curr_path]
    ELSE multi_step(g, points, weight, i, curr_path,
            nx_dijkstra_path(g, points[i], points[i + 1], weight))

ErrorReply == [error |-> "unreachable"]

\* the result container find_multi_stop_path starts from
multi_container(start, end, waypoints) ==
    [start |-> start, end |-> end, waypoints |-> waypoints,
     time_path |-> <<>>, total_time |-> 0, time_path_cost |-> 0,
     cost_path |-> <<>>, total_cost |-> 0, cost_path_time |-> 0,
     time_details |-> <<>>, cost_details |-> <<>>]

\* the container with the time chain filled in
with_time_chain(g, r, path) ==
    [r EXCEPT !.time_path = path,
              !.total_time = get_path_weight(g, path, "time"),
              !.time_path_cost = get_path_weight(g, path, "cost"),
              !.time_details = get_path_details(g, path)]

\* the container with the cost chain filled in
with_cost_chain(g, r, path) ==
    [r EXCEPT !.cost_path = path,
              !.total_cost = get_path_weight(g, path, "cost"),
              !.cost_path_time = get_path_weight(g, path, "time"),
              !.cost_details = get_path_details(g, path)]

\* multi_planned whose except clause adds the error to the container built so
\* far and returns that
multi_planned_partial(g, r0, t, c) ==
    IF t.exc = "NetworkXNoPath" THEN Return(Put(r0, "error", "unreachable"))
    ELSE IF t.exc # "" THEN Raise(t.exc)
    ELSE IF c.exc = "NetworkXNoPath"
    THEN Return(Put(with_time_chain(g, r0, t.path), "error", "unreachable"))
    ELSE IF c.exc # "" THEN Raise(c.exc)
    ELSE Return(with_cost_chain(g, with_time_chain(g, r0, t.path), c.path))

\* the try block from the two chains t and c: NetworkXNoPath of either chain
\* is caught and answered by the error reply, any other exception leaves
multi_planned(g, r0, t, c) ==
    IF t.exc = "NetworkXNoPath" THEN Return(ErrorReply)
    ELSE IF t.exc # "" THEN Raise(t.exc)
    ELSE IF c.exc = "NetworkXNoPath" THEN Return(ErrorReply)
    ELSE IF c.exc # "" THEN Raise(c.exc)
    ELSE Return(with_cost_chain(g, with_time_chain(g, r0, t.path), c.path))

find_multi_stop_path(g, start, end, waypoints) ==
    multi_planned(g, multi_container(start, end, waypoints),
        multi_chain(g, <<start>> \o waypoints \o <<end>>, "time", 1, <<>>),
        multi_chain(g, <<start>> \o waypoints \o <<end>>, "cost", 1, <<>>))

-----------------------------------------------------------------------------
(* get_mst_steps                                                           *)

\* G.edges(data=True): nodes in node order, each node's neighbours in
\* adjacency order, an edge reported from its first-enumerated endpoint
edges_of(g, weight_key) ==
    LET from_node[k \in 0..Len(g.nodes)] ==
            IF k = 0 THEN <<>>
            ELSE LET n == g.nodes[k]
                     seen == {g.nodes[j] : j \in 1..(k - 1)}
                     nbrs[i \in 0..Len(g.adj[n])] ==
                         IF i = 0 THEN <<>>
                         ELSE IF g.adj[n][i] \in seen THEN nbrs[i - 1]
                         ELSE Append(nbrs[i - 1],
                                     <<n, g.adj[n][i], g.data[<<n, g.adj[n][i]>>][weight_key]>>)
                 IN from_node[k - 1] \o nbrs[Len(g.adj[n])]
    IN from_node[Len(g.nodes)]

\* an insertion that puts an edge before the edges of its own weight
RECURSIVE insert_before_equal(_, _)
insert_before_equal(sorted, e) ==
    IF sorted = <<>> THEN <<e>>
    ELSE IF sorted[Len(sorted)][3] < e[3] THEN Append(sorted, e)
    ELSE Append(insert_before_equal(SubSeq(sorted, 1, Len(sorted) - 1), e),
                sorted[Len(sorted)])

\* edges.sort(key=lambda x: x[2]): stable, ascending by weight
RECURSIVE insert_sorted(_, _)
insert_sorted(sorted, e) ==
    IF sorted = <<>> THEN <<e>>
    ELSE IF sorted[Len(sorted)][3] <= e[3] THEN Append(sorted, e)
    ELSE Append(insert_sorted(SubSeq(sorted, 1, Len(sorted) - 1), e), sorted[Len(sorted)])

\* the sort left out: the edges stay in enumeration order
sort_by_weight_unsorted(edges) == edges

sort_by_weight(edges) ==
    LET acc[i \in 0..Len(edges)] ==
            IF i = 0 THEN <<>> ELSE insert_sorted(acc[i - 1], edges[i])
    IN acc[Len(edges)]

\* find(i): the root of i (the path compression it performs moves no root)
RECURSIVE find(_, _)
find(parent, i) == IF parent[i] = i THEN i ELSE find(parent, parent[i])

kruskal_steps(g, weight_key) ==
    LET edges == sort_by_weight(edges_of(g, weight_key))
        run[k \in 0..Len(edges)] ==
            IF k = 0 THEN [parent |-> [n \in NodeSet(g) |-> n], steps |-> <<>>]
            ELSE LET s == run[k - 1]
                     e == edges[k]
                     root_i == find(s.parent, e[1])
                     root_j == find(s.parent, e[2])
                 IN IF root_i # root_j
                    THEN [parent |-> [s.parent EXCEPT ![root_i] = root_j],
                          steps |-> Append(s.steps,
                                      [u |-> e[1], v |-> e[2], weight |-> e[3],
                                       action |-> "add"])]
                    ELSE s
    IN run[Len(edges)].steps

\* Python's order on the city names (str comparison)
NameLess(a, b) ==
    LET rank == [A |-> 1, B |-> 2, C |-> 3, D |-> 4, X |-> 5]
    IN rank[a] < rank[b]

\* a pop that ignores the weight: the least tuple by node names only
TupleMin_by_name(h) ==
    CHOOSE e \in h : \A f \in h :
        \/ e = f
        \/ NameLess(e[2], f[2])
        \/ e[2] = f[2] /\ NameLess(e[3], f[3])

\* heappop on (weight, u, v) tuples: the least tuple, compared field by field
TupleMin(h) ==
    CHOOSE e \in h : \A f \in h :
        \/ e = f
        \/ e[1] < f[1]
        \/ e[1] = f[1] /\ NameLess(e[2], f[2])
        \/ e[1] = f[1] /\ e[2] = f[2] /\ NameLess(e[3], f[3])

\* the edges of v towards the nodes outside visited, as heap entries
prim_push(g, weight_key, v, visited) ==
    {<<g.data[<<v, g.adj[v][i]>>][weight_key], v, g.adj[v][i]>> :
        i \in {j \in 1..Len(g.adj[v]) : g.adj[v][j] \notin visited}}

\* the loop without its "if v not in visited" test
RECURSIVE prim_loop_unchecked(_, _, _, _, _)
prim_loop_unchecked(g, weight_key, visited, candidate_edges, steps) ==
    IF candidate_edges = {} THEN steps
    ELSE LET e == TupleMin(candidate_edges)
         IN prim_loop_unchecked(g, weight_key, visited \cup {e[3]},
                (candidate_edges \ {e})
                    \cup prim_push(g, weight_key, e[3], visited \cup {e[3]}),
                Append(steps, [u |-> e[2], v |-> e[3], weight |-> e[1],
                               action |-> "add"]))

RECURSIVE prim_loop(_, _, _, _, _)
prim_loop(g, weight_key, visited, candidate_edges, steps) ==
    IF candidate_edges = {} THEN steps
    ELSE LET e == TupleMin(candidate_edges)
             rest == candidate_edges \ {e}
         IN IF e[3] \notin visited
            THEN prim_loop(g, weight_key, visited \cup {e[3]},
                           rest \cup prim_push(g, weight_key, e[3], visited \cup {e[3]}),
                           Append(steps, [u |-> e[2], v |-> e[3], weight |-> e[1],
                                          action |-> "add"]))
            ELSE prim_loop(g, weight_key, visited, rest, steps)

prim_steps(g, weight_key) ==
    IF g.nodes = <<>> THEN <<>>
    ELSE LET start_node == g.nodes[1]
         IN prim_loop(g, weight_key, {start_node},
                      prim_push(g, weight_key, start_node, {}), <<>>)

get_mst_steps(g, algorithm, weight_key) ==
    IF algorithm = "kruskal" THEN kruskal_steps(g, weight_key)
    ELSE IF algorithm = "prim" THEN prim_steps(g, weight_key)
    ELSE <<>>

-----------------------------------------------------------------------------
(* Centrality scores.  A score is the exact fraction <<numerator,          *)
(* denominator>> in lowest terms; the code holds its nearest float.        *)

RECURSIVE Gcd(_, _)
Gcd(a, b) == IF b = 0 THEN a ELSE Gcd(b, a % b)

\* the fraction n / d in lowest terms (n >= 0, d > 0)
Rat(n, d) == LET g == Gcd(n, d) IN <<n \div g, d \div g>>

Zero == Rat(0, 1)
One == Rat(1, 1)

RatAdd(x, y) == Rat(x[1] * y[2] + y[1] * x[2], x[2] * y[2])
RatMul(x, y) == Rat(x[1] * y[1], x[2] * y[2])
RatDiv(x, y) == Rat(x[1] * y[2], x[2] * y[1])
RatLess(x, y) == x[1] * y[2] < y[1] * x[2]

\* sorted(...)[::-1] in place of sorted(..., reverse=True): descending by
\* score, items of equal score in reversed order
RECURSIVE insert_reversed(_, _)
insert_reversed(sorted, item) ==
    IF sorted = <<>> THEN <<item>>
    ELSE IF RatLess(item[2], sorted[Len(sorted)][2]) THEN Append(sorted, item)
    ELSE Append(insert_reversed(SubSeq(sorted, 1, Len(sorted) - 1), item),
                sorted[Len(sorted)])

sorted_then_reversed(items) ==
    LET acc[i \in 0..Len(items)] ==
            IF i = 0 THEN <<>> ELSE insert_reversed(acc[i - 1], items[i])
    IN acc[Len(items)]

\* sorted(scores.items(), key=lambda x: x[1], reverse=True): descending by
\* score; the sort is stable, so items of equal score keep their order
RECURSIVE insert_descending(_, _)
insert_descending(sorted, item) ==
    IF sorted = <<>> THEN <<item>>
    ELSE IF ~RatLess(sorted[Len(sorted)][2], item[2]) THEN Append(sorted, item)
    ELSE Append(insert_descending(SubSeq(sorted, 1, Len(sorted) - 1), item),
                sorted[Len(sorted)])

sorted_descending(items) ==
    LET acc[i \in 0..Len(items)] ==
            IF i = 0 THEN <<>> ELSE insert_descending(acc[i - 1], items[i])
    IN acc[Len(items)]

\* seq[:top_n] for top_n >= 0
Prefix(seq, top_n) == SubSeq(seq, 1, IF top_n < Len(seq) THEN top_n ELSE Len(seq))

\* scores.items(): the nodes in the graph's node order, each with its score
items(g, scores) == [i \in 1..Len(g.nodes) |-> <<g.nodes[i], scores[g.nodes[i]]>>]

top(g, scores, top_n) == Prefix(sorted_descending(items(g, scores)), top_n)

\* the degree divided by the number of nodes instead of by n - 1
degree_centrality_by_n(g) ==
    [n \in NodeSet(g) |-> Rat(Len(g.adj[n]), Len(g.nodes))]

\* nx.degree_centrality(G): degree times 1 / (n - 1); 1 for every node when
\* the graph has at most one node
degree_centrality(g) ==
    [n \in NodeSet(g) |->
        IF Len(g.nodes) <= 1 THEN One
        ELSE RatMul(Rat(Len(g.adj[n]), 1), Rat(1, Len(g.nodes) - 1))]

\* twice the number of triangles through v: for every neighbour w of v, the
\* neighbours v and w have in common
triangles(g, v) ==
    LET vs == Range(g.adj[v]) \ {v}
        common[i \in 0..Len(g.adj[v])] ==
            IF i = 0 THEN 0
            ELSE LET w == g.adj[v][i]
                 IN common[i - 1]
                    + (IF w = v THEN 0
                       ELSE Cardinality(vs \cap (Range(g.adj[w]) \ {w})))
    IN common[Len(g.adj[v])]

\* nx.clustering(G): 0 if t == 0 else t / (d * (d - 1))
clustering(g) ==
    [v \in NodeSet(g) |->
        LET d == Cardinality(Range(g.adj[v]) \ {v})
            t == triangles(g, v)
        IN IF t = 0 THEN Zero ELSE Rat(t, d * (d - 1))]

RECURSIVE RatSum(_, _, _)
RatSum(g, scores, i) ==
    IF i > Len(g.nodes) THEN Zero
    ELSE RatAdd(scores[g.nodes[i]], RatSum(g, scores, i + 1))

\* nx.average_clustering(G): sum(c) / len(c)
average_clustering(g) == RatDiv(RatSum(g, clustering(g), 1), Rat(Len(g.nodes), 1))

\* nx.single_source_dijkstra_path_length(G, n, weight): the distance of every
\* node reachable from n (the search of dijkstra_path, run without a target)
single_source_dijkstra_path_length(g, n, weight) ==
    dijkstra_loop(g, weight, "",
        [dist |-> <<>>, seen |-> (n :> 0),
         fringe |-> {[d |-> 0, c |-> 0, v |-> n]}, c |-> 1,
         paths |-> (n :> <<n>>)]).dist

RECURSIVE SumValues(_, _)
SumValues(sp, keys) ==
    IF keys = {} THEN 0
    ELSE LET k == CHOOSE x \in keys : TRUE
         IN sp[k] + SumValues(sp, keys \ {k})

\* one node's closeness from its distance dict sp (wf_improved=True)
closeness_of(g, sp) ==
    LET totsp == SumValues(sp, DOMAIN sp)
        reached == Cardinality(DOMAIN sp) - 1
    IN IF totsp > 0 /\ Len(g.nodes) > 1
       THEN RatMul(Rat(reached, totsp), Rat(reached, Len(g.nodes) - 1))
       ELSE Zero

\* nx.closeness_centrality(G, distance=...)
closeness_centrality(g, distance) ==
    [n \in NodeSet(g) |->
        closeness_of(g, single_source_dijkstra_path_length(g, n, distance))]

-----------------------------------------------------------------------------
(* nx.betweenness_centrality(G, weight=..., normalized=True)               *)

\* the neighbours of the settled node v, from the i-th on: a neighbour that
\* is new or improved is pushed with v as its only predecessor; one found at
\* the distance already recorded for it gains v as a further predecessor
RECURSIVE brandes_relax(_, _, _, _, _, _)
brandes_relax(g, weight, v, dist, i, st) ==
    IF i > Len(g.adj[v]) THEN st
    ELSE LET w == g.adj[v][i]
             vw_dist == dist + g.data[<<v, w>>][weight]
         IN IF w \notin DOMAIN st.D /\ (w \notin DOMAIN st.seen \/ vw_dist < st.seen[w])
            THEN brandes_relax(g, weight, v, dist, i + 1,
                    [st EXCEPT !.seen = (w :> vw_dist) @@ @,
                               !.Q = @ \cup {[d |-> vw_dist, c |-> st.c, pred |-> v, v |-> w]},
                               !.c = @ + 1,
                               !.sigma[w] = 0,
                               !.P[w] = <<v>>])
            ELSE IF vw_dist = st.seen[w]
            THEN brandes_relax(g, weight, v, dist, i + 1,
                    [st EXCEPT !.sigma[w] = @ + st.sigma[v],
                               !.P[w] = Append(@, v)])
            ELSE brandes_relax(g, weight, v, dist, i + 1, st)

RECURSIVE brandes_loop(_, _, _)
brandes_loop(g, weight, st) ==
    IF st.Q = {} THEN st
    ELSE LET e == HeapMin(st.Q)
             st1 == [st EXCEPT !.Q = @ \ {e}]
         IN IF e.v \in DOMAIN st1.D THEN brandes_loop(g, weight, st1)
            ELSE brandes_loop(g, weight,
                    brandes_relax(g, weight, e.v, e.d, 1,
                        [st1 EXCEPT !.sigma[e.v] = @ + st1.sigma[e.pred],
                                    !.S = Append(@, e.v),
                                    !.D = (e.v :> e.d) @@ @]))

\* _single_source_dijkstra_path_basic(G, s, weight): S, P, sigma, D
single_source_dijkstra_path_basic(g, s, weight) ==
    brandes_loop(g, weight,
        [S |-> <<>>,
         P |-> [v \in NodeSet(g) |-> <<>>],
         sigma |-> [v \in NodeSet(g) |-> IF v = s THEN 1 ELSE 0],
         D |-> <<>>,
         seen |-> (s :> 0),
         Q |-> {[d |-> 0, c |-> 0, pred |-> s, v |-> s]},
         c |-> 1])

\* for v in P[w]: delta[v] += sigma[v] * coeff
RECURSIVE accumulate_preds(_, _, _, _, _)
accumulate_preds(preds, sigma, coeff, i, delta) ==
    IF i > Len(preds) THEN delta
    ELSE accumulate_preds(preds, sigma, coeff, i + 1,
            [delta EXCEPT ![preds[i]] = RatAdd(@, RatMul(Rat(sigma[preds[i]], 1), coeff))])

\* _accumulate_basic(betweenness, S, P, sigma, s): S is popped from its end
RECURSIVE accumulate_basic(_, _, _, _, _, _)
accumulate_basic(betweenness, S, P, sigma, s, delta) ==
    IF S = <<>> THEN betweenness
    ELSE LET w == S[Len(S)]
             coeff == RatDiv(RatAdd(One, delta[w]), Rat(sigma[w], 1))
             delta1 == accumulate_preds(P[w], sigma, coeff, 1, delta)
         IN accumulate_basic(
                IF w # s THEN [betweenness EXCEPT ![w] = RatAdd(@, delta1[w])]
                ELSE betweenness,
                SubSeq(S, 1, Len(S) - 1), P, sigma, s, delta1)

\* one source's contribution, from the search result r
accumulate_source(betweenness, r, s) ==
    accumulate_basic(betweenness, r.S, r.P, r.sigma, s,
                     [v \in Range(r.S) |-> Zero])

\* _rescale(betweenness, n, normalized=True): times 1 / ((n-1)(n-2)) for n > 2
rescale(g, betweenness) ==
    IF Len(g.nodes) <= 2 THEN betweenness
    ELSE [v \in NodeSet(g) |->
            RatMul(betweenness[v], Rat(1, (Len(g.nodes) - 1) * (Len(g.nodes) - 2)))]

RECURSIVE betweenness_from(_, _, _, _)
betweenness_from(g, weight, i, betweenness) ==
    IF i > Len(g.nodes) THEN betweenness
    ELSE betweenness_from(g, weight, i + 1,
            accumulate_source(betweenness,
                single_source_dijkstra_path_basic(g, g.nodes[i], weight),
                g.nodes[i]))

betweenness_centrality(g, weight) ==
    rescale(g, betweenness_from(g, weight, 1, [v \in NodeSet(g) |-> Zero]))

-----------------------------------------------------------------------------
(* calculate_betweenness_centrality, calculate_advanced_metrics            *)

calculate_betweenness_centrality(g, top_n) ==
    top(g, betweenness_centrality(g, "time"), top_n)

calculate_advanced_metrics(g, top_n) ==
    [degree |-> top(g, degree_centrality(g), top_n),
     closeness |-> top(g, closeness_centrality(g, "time"), top_n),
     clustering |-> top(g, clustering(g), top_n),
     avg_clustering |-> average_clustering(g)]

-----------------------------------------------------------------------------
(* The state machine                                                       *)

Algorithms == {"bfs", "astar", "dijkstra"}
MstAlgorithms == {"kruskal", "prim"}
WeightKeys == {"time", "cost"}

\* the names a query may carry: every city and one name that is no city
QueryNodes == Range(CityNames) \cup {Absent}

SeqsUpTo(S, n) == UNION {[1..k -> S] : k \in 0..n}

NoCall == [op |-> "none"]
NoResult == [exc |-> "", value |-> <<>>]

Init ==
    /\ CITIES = [i \in 1..Len(CityNames) |-> <<CityNames[i], CityPos[CityNames[i]]>>]
    /\ \E sel \in [1..Len(PairList) -> RowChoices] : RAILWAY_EDGES = TableRows(sel, 1)
    /\ G = EmptyGraph
    /\ pc = "import"
    /\ call = NoCall
    /\ result = NoResult

\* app.py: G, pos = create_railway_network() when the module is loaded
CreateRailwayNetwork ==
    /\ pc = "import"
    /\ G' = create_railway_network(CITIES, RAILWAY_EDGES)
    /\ pc' = "serving"
    /\ UNCHANGED <<CITIES, RAILWAY_EDGES, call, result>>

FindDualPaths ==
    /\ pc = "serving"
    /\ \E start \in QueryNodes, end \in QueryNodes, algorithm \in Algorithms :
          /\ call' = [op |-> "find_dual_paths", start |-> start, end |-> end,
                      algorithm |-> algorithm]
          /\ result' = find_dual_paths(G, start, end, algorithm)
    /\ pc' = "replying"
    /\ UNCHANGED <<CITIES, RAILWAY_EDGES, G>>

FindMultiStopPath ==
    /\ pc = "serving"
    /\ \E start \in QueryNodes, end \in QueryNodes,
          waypoints \in SeqsUpTo(QueryNodes, MaxWaypoints) :
          /\ call' = [op |-> "find_multi_stop_path", start |-> start, end |-> end,
                      waypoints |-> waypoints]
          /\ result' = find_multi_stop_path(G, start, end, waypoints)
    /\ pc' = "replying"
    /\ UNCHANGED <<CITIES, RAILWAY_EDGES, G>>

\* G.remove_edge(u, v)
remove_edge(g, u, v) ==
    [g EXCEPT !.adj = [n \in DOMAIN g.adj |->
                          IF n = u THEN SelectSeq(g.adj[n], LAMBDA x : x # v)
                          ELSE IF n = v THEN SelectSeq(g.adj[n], LAMBDA x : x # u)
                          ELSE g.adj[n]],
              !.data = [e \in DOMAIN g.data \ {<<u, v>>, <<v, u>>} |-> g.data[e]]]

RECURSIVE remove_steps(_, _, _)
remove_steps(g, steps, i) ==
    IF i > Len(steps) THEN g
    ELSE remove_steps(remove_edge(g, steps[i].u, steps[i].v), steps, i + 1)

\* a tracer that takes every edge it emits out of the graph it was handed
GetMstSteps_removing_edges ==
    /\ pc = "serving"
    /\ \E algorithm \in MstAlgorithms, weight_key \in WeightKeys :
          /\ call' = [op |-> "get_mst_steps", algorithm |-> algorithm,
                      weight_key |-> weight_key]
          /\ result' = Return(get_mst_steps(G, algorithm, weight_key))
          /\ G' = remove_steps(G, get_mst_steps(G, algorithm, weight_key), 1)
    /\ pc' = "replying"
    /\ UNCHANGED <<CITIES, RAILWAY_EDGES>>

GetMstSteps ==
    /\ pc = "serving"
    /\ \E algorithm \in MstAlgorithms, weight_key \in WeightKeys :
          /\ call' = [op |-> "get_mst_steps", algorithm |-> algorithm,
                      weight_key |-> weight_key]
          /\ result' = Return(get_mst_steps(G, algorithm, weight_key))
    /\ pc' = "replying"
    /\ UNCHANGED <<CITIES, RAILWAY_EDGES, G>>

CalculateBetweennessCentrality ==
    /\ pc = "serving"
    /\ \E top_n \in 0..MaxTopN :
          /\ call' = [op |-> "calculate_betweenness_centrality", top_n |-> top_n]
          /\ result' = Return(calculate_betweenness_centrality(G, top_n))
    /\ pc' = "replying"
    /\ UNCHANGED <<CITIES, RAILWAY_EDGES, G>>

CalculateAdvancedMetrics ==
    /\ pc = "serving"
    /\ \E top_n \in 0..MaxTopN :
          /\ call' = [op |-> "calculate_advanced_metrics", top_n |-> top_n]
          /\ result' = Return(calculate_advanced_metrics(G, top_n))
    /\ pc' = "replying"
    /\ UNCHANGED <<CITIES, RAILWAY_EDGES, G>>

\* the handler hands the result to its caller; the next request starts afresh
Reply ==
    /\ pc = "replying"
    /\ pc' = "serving"
    /\ call' = NoCall
    /\ result' = NoResult
    /\ UNCHANGED <<CITIES, RAILWAY_EDGES, G>>

Next ==
    \/ CreateRailwayNetwork
    \/ FindDualPaths
    \/ FindMultiStopPath
    \/ GetMstSteps
    \/ CalculateBetweennessCentrality
    \/ CalculateAdvancedMetrics
    \/ Reply

Spec == Init /\ [][Next]_vars

-----------------------------------------------------------------------------
(* Reference notions the properties are stated with.  They are defined from *)
(* the graph alone, not from the operators that model the code.            *)

Nbrs(g, u) == IF u \in DOMAIN g.adj THEN Range(g.adj[u]) ELSE {}

\* every walk from s with at most k edges
RECURSIVE WalksFrom(_, _, _)
WalksFrom(g, s, k) ==
    IF k = 0 THEN {<<s>>}
    ELSE LET W == WalksFrom(g, s, k - 1)
         IN W \cup UNION {{Append(p, n) : n \in Nbrs(g, p[Len(p)])} : p \in W}

\* the walks from s to e with at most as many edges as the graph has nodes:
\* every simple path is among them
Walks(g, s, e) == {p \in WalksFrom(g, s, Len(g.nodes)) : p[Len(p)] = e}

IsWalk(g, p, s, e) ==
    /\ Len(p) >= 1
    /\ p[1] = s
    /\ p[Len(p)] = e
    /\ \A i \in 1..(Len(p) - 1) : HasEdge(g, p[i], p[i + 1])

RECURSIVE WeightOf(_, _, _)
WeightOf(g, p, d) ==
    IF Len(p) < 2 THEN 0
    ELSE g.data[<<p[1], p[2]>>][d] + WeightOf(g, Tail(p), d)

RECURSIVE Closure(_, _)
Closure(g, S) ==
    LET S2 == S \cup UNION {Nbrs(g, u) : u \in S}
    IN IF S2 = S THEN S ELSE Closure(g, S2)

Connected(g, u, v) == u \in NodeSet(g) /\ v \in Closure(g, {u})

IsConnectedGraph(g) == \A u, v \in NodeSet(g) : Connected(g, u, v)

Components(g) == {Closure(g, {u}) : u \in NodeSet(g)}

\* lev maps each node v to the d-weights of the walks from s to v with at
\* most j edges; the result does so for j + k edges
RECURSIVE WalkWeights(_, _, _, _)
WalkWeights(g, d, k, lev) ==
    IF k = 0 THEN lev
    ELSE WalkWeights(g, d, k - 1,
            [v \in NodeSet(g) |->
                lev[v] \cup UNION {{x + g.data[<<u, v>>][d] : x \in lev[u]} :
                                     u \in Nbrs(g, v)}])

\* the least d-weight of a walk from s to e with fewer edges than the graph
\* has nodes (every simple path is such a walk); s and e connected
OptDist(g, s, e, d) ==
    LET ws == WalkWeights(g, d, Len(g.nodes) - 1,
                          [v \in NodeSet(g) |-> IF v = s THEN {0} ELSE {}])[e]
    IN CHOOSE m \in ws : \A x \in ws : m <= x

Replied(op) == pc = "replying" /\ call.op = op

Keys(v) == DOMAIN v

-----------------------------------------------------------------------------
(* C1                                                                      *)

C1Case ==
    /\ Replied("find_dual_paths")
    /\ call.algorithm = "dijkstra"
    /\ Connected(G, call.start, call.end)

\* C1: for connected start and end, the path Dijkstra returns for a dimension
\* is a walk of G from start to end, its reported total is its weight in that
\* dimension, and no walk from start to end weighs less in that dimension.
C1_DijkstraOptimal ==
    C1Case =>
        /\ result.exc = ""
        /\ IsWalk(G, result.value.time_path, call.start, call.end)
        /\ result.value.total_time = WeightOf(G, result.value.time_path, "time")
        /\ \A p \in Walks(G, call.start, call.end) :
               result.value.total_time <= WeightOf(G, p, "time")
        /\ IsWalk(G, result.value.cost_path, call.start, call.end)
        /\ result.value.total_cost = WeightOf(G, result.value.cost_path, "cost")
        /\ \A p \in Walks(G, call.start, call.end) :
               result.value.total_cost <= WeightOf(G, p, "cost")

\* a query whose best route is an indirect one: start and end share an edge,
\* and the returned path is longer in hops and strictly faster than that edge
C1_Witness ==
    /\ C1Case
    /\ HasEdge(G, call.start, call.end)
    /\ Len(result.value.time_path) > 2
    /\ result.value.total_time < G.data[<<call.start, call.end>>].time

-----------------------------------------------------------------------------
(* C2                                                                      *)

C2Case ==
    /\ Replied("find_dual_paths")
    /\ call.algorithm = "astar"
    /\ Connected(G, call.start, call.end)

\* C2: for connected start and end, the time path A* returns has the same
\* total time as the path Dijkstra returns for the same query.
C2_AstarMatchesDijkstra ==
    C2Case =>
        /\ result.exc = ""
        /\ result.value.total_time =
               dijkstra_shortest_path(G, call.start, call.end, "time").total

-----------------------------------------------------------------------------
(* C3                                                                      *)

C3Case ==
    /\ pc = "replying"
    /\ call.op \in {"find_dual_paths", "find_multi_stop_path"}
    /\ \/ call.start \notin NodeSet(G)
       \/ call.end \notin NodeSet(G)
       \/ /\ call.op = "find_multi_stop_path"
          /\ \E i \in 1..Len(call.waypoints) : call.waypoints[i] \notin NodeSet(G)

\* C3: a query that names a node absent from the graph ends in the
\* invalid-node error and hands back no value.
C3_InvalidNodeError ==
    C3Case => result.exc = "NodeNotFound"

-----------------------------------------------------------------------------
(* C4                                                                      *)

C4Case ==
    /\ Replied("find_dual_paths")
    /\ call.algorithm = "dijkstra"
    /\ call.start \in NodeSet(G)
    /\ call.end \in NodeSet(G)
    /\ ~Connected(G, call.start, call.end)

\* C4: a Dijkstra query between nodes of different components fails with the
\* no-path error instead of returning a result record.
C4_NoPathError ==
    C4Case => result.exc = "NetworkXNoPath" \/ "error" \in Keys(result.value)

\* C4 (amended): a Dijkstra query between nodes of different components
\* raises nothing and returns a result record without an error field, in
\* which both path slots are None and both detail lists are empty.
C4_ReturnsRecord ==
    C4Case =>
        /\ result.exc = ""
        /\ "error" \notin Keys(result.value)
        /\ {"start", "end", "algorithm"} \subseteq Keys(result.value)
        /\ result.value.time_path = None
        /\ result.value.cost_path = None
        /\ result.value.time_details = <<>>
        /\ result.value.cost_details = <<>>

\* the scenario of the specification: components {A,B} and {C,D}, query A to C
C4_Witness ==
    /\ C4Case
    /\ Components(G) = {{"A", "B"}, {"C", "D"}}
    /\ call.start = "A"
    /\ call.end = "C"
    /\ result.exc = ""

-----------------------------------------------------------------------------
(* C5                                                                      *)

C5Case ==
    /\ Replied("find_dual_paths")
    /\ call.start \in NodeSet(G)
    /\ call.end \in NodeSet(G)
    /\ ~Connected(G, call.start, call.end)

\* C5: when an objective's path is unreachable the call still returns a
\* record, whose path slot for the objective is None, whose totals for the
\* objective are omitted and whose detail list for the objective is empty.
C5_UnreachableSlots ==
    C5Case =>
        /\ result.exc = ""
        /\ result.value.time_path = None
        /\ "total_time" \notin Keys(result.value)
        /\ "time_path_cost" \notin Keys(result.value)
        /\ result.value.time_details = <<>>
        /\ result.value.cost_path = None
        /\ "total_cost" \notin Keys(result.value)
        /\ "cost_path_time" \notin Keys(result.value)
        /\ result.value.cost_details = <<>>

-----------------------------------------------------------------------------
(* C6                                                                      *)

C6Case ==
    /\ Replied("find_dual_paths")
    /\ call.start \in NodeSet(G)
    /\ call.end = call.start

\* C6: a query from a node to itself returns, under every algorithm, the
\* one-node path for both objectives, all four totals 0 and no details.
C6_StartEqualsEnd ==
    C6Case =>
        /\ result.exc = ""
        /\ result.value.time_path = <<call.start>>
        /\ result.value.cost_path = <<call.start>>
        /\ {"total_time", "total_cost", "time_path_cost", "cost_path_time"}
               \subseteq Keys(result.value)
        /\ result.value.total_time = 0
        /\ result.value.total_cost = 0
        /\ result.value.time_path_cost = 0
        /\ result.value.cost_path_time = 0
        /\ result.value.time_details = <<>>
        /\ result.value.cost_details = <<>>

\* the degenerate query on a node that has railways, answered by A*
C6_Witness ==
    /\ C6Case
    /\ call.algorithm = "astar"
    /\ Nbrs(G, call.start) # {}
    /\ result.exc = ""
    /\ result.value.time_path = <<call.start>>

-----------------------------------------------------------------------------
(* C7                                                                      *)

Stops == <<call.start>> \o call.waypoints \o <<call.end>>

AllStopsAreNodes == \A i \in 1..Len(Stops) : Stops[i] \in NodeSet(G)

C7Case ==
    /\ Replied("find_multi_stop_path")
    /\ AllStopsAreNodes
    /\ \A i \in 1..(Len(Stops) - 1) : Connected(G, Stops[i], Stops[i + 1])

RECURSIVE SumOptDist(_, _, _, _)
SumOptDist(g, stops, d, i) ==
    IF i >= Len(stops) THEN 0
    ELSE OptDist(g, stops[i], stops[i + 1], d) + SumOptDist(g, stops, d, i + 1)

\* p visits the stops in order, from position i of p on
RECURSIVE VisitsInOrder(_, _, _, _)
VisitsInOrder(p, stops, k, i) ==
    IF k > Len(stops) THEN TRUE
    ELSE \E j \in i..Len(p) : p[j] = stops[k] /\ VisitsInOrder(p, stops, k + 1, j)

\* C7: when every consecutive pair of stops is connected, each chain is a walk
\* of G from start to end through the stops in order (so no node is repeated
\* at a junction), total_time is the sum of the least time distances of the
\* pairs and total_cost the sum of their least cost distances, and the
\* cross-metrics are the other weight of the same chains.
C7_MultiStopTotals ==
    C7Case =>
        /\ result.exc = ""
        /\ "error" \notin Keys(result.value)
        /\ IsWalk(G, result.value.time_path, call.start, call.end)
        /\ VisitsInOrder(result.value.time_path, Stops, 1, 1)
        /\ result.value.total_time = SumOptDist(G, Stops, "time", 1)
        /\ result.value.total_time = WeightOf(G, result.value.time_path, "time")
        /\ IsWalk(G, result.value.cost_path, call.start, call.end)
        /\ VisitsInOrder(result.value.cost_path, Stops, 1, 1)
        /\ result.value.total_cost = SumOptDist(G, Stops, "cost", 1)
        /\ result.value.total_cost = WeightOf(G, result.value.cost_path, "cost")

\* a route through a waypoint that differs from start and end, whose two
\* segments both have edges and whose cost chain differs from its time chain
C7_Witness ==
    /\ C7Case
    /\ Len(call.waypoints) = 1
    /\ call.waypoints[1] \notin {call.start, call.end}
    /\ call.start # call.end
    /\ result.exc = ""
    /\ Len(result.value.time_path) > 3
    /\ result.value.time_path # result.value.cost_path

-----------------------------------------------------------------------------
(* C8                                                                      *)

C8Case ==
    /\ Replied("find_multi_stop_path")
    /\ AllStopsAreNodes
    /\ \E i \in 1..(Len(Stops) - 1) : ~Connected(G, Stops[i], Stops[i + 1])

\* C8: when some consecutive pair of stops (all of them nodes) lies in
\* different components, the call returns the error reply alone: no path,
\* total or detail field, of either chain.
C8_MultiStopAllOrNothing ==
    C8Case =>
        /\ result.exc = ""
        /\ Keys(result.value) = {"error"}

\* the first segment is routable and has an edge, the second is not
C8_Witness ==
    /\ C8Case
    /\ Len(call.waypoints) = 1
    /\ call.start # call.waypoints[1]
    /\ Connected(G, call.start, call.waypoints[1])
    /\ ~Connected(G, call.waypoints[1], call.end)
    /\ Keys(result.value) = {"error"}

-----------------------------------------------------------------------------
(* C9, C10                                                                 *)

\* the undirected edges of the graph
EdgeSet(g) == {{e[1], e[2]} : e \in DOMAIN g.data}

StepEdges(steps) == {{steps[i].u, steps[i].v} : i \in 1..Len(steps)}

\* the nodes joined to u by the edges of T
RECURSIVE ClosureIn(_, _)
ClosureIn(T, S) ==
    LET S2 == S \cup UNION {e \in T : e \cap S # {}}
    IN IF S2 = S THEN S ELSE ClosureIn(T, S2)

Spans(g, T) == \A u \in NodeSet(g) : ClosureIn(T, {u}) = NodeSet(g)

\* the spanning trees of g: n-1 edges that join all n nodes
SpanningTrees(g) ==
    {T \in SUBSET EdgeSet(g) :
        Cardinality(T) = Cardinality(NodeSet(g)) - 1 /\ Spans(g, T)}

EdgeWeight(g, e, d) ==
    LET u == CHOOSE x \in e : TRUE
        v == CHOOSE y \in e : y # u
    IN g.data[<<u, v>>][d]

RECURSIVE SetWeight(_, _, _)
SetWeight(g, T, d) ==
    IF T = {} THEN 0
    ELSE LET e == CHOOSE x \in T : TRUE
         IN EdgeWeight(g, e, d) + SetWeight(g, T \ {e}, d)

RECURSIVE StepSum(_, _)
StepSum(steps, i) ==
    IF i > Len(steps) THEN 0 ELSE steps[i].weight + StepSum(steps, i + 1)

C9Case ==
    /\ Replied("get_mst_steps")
    /\ IsConnectedGraph(G)

\* C9: on a connected graph of n nodes each algorithm emits n-1 steps; every
\* step is an edge of G with that edge's weight in the chosen dimension; the
\* n-1 emitted edges are distinct and join all nodes (a spanning tree); and
\* their total weight is the least total weight of any spanning tree.
C9_MinimumSpanningTree ==
    C9Case =>
        LET steps == result.value
            d == call.weight_key
        IN /\ Len(steps) = Len(G.nodes) - 1
           /\ \A i \in 1..Len(steps) :
                  /\ HasEdge(G, steps[i].u, steps[i].v)
                  /\ steps[i].weight = G.data[<<steps[i].u, steps[i].v>>][d]
           /\ StepEdges(steps) \in SpanningTrees(G)
           /\ \A T \in SpanningTrees(G) : StepSum(steps, 1) <= SetWeight(G, T, d)

\* a connected graph with a cycle whose spanning trees differ in weight
C9_Witness ==
    /\ C9Case
    /\ \E T1, T2 \in SpanningTrees(G) :
           SetWeight(G, T1, call.weight_key) < SetWeight(G, T2, call.weight_key)
    /\ Len(result.value) = Len(G.nodes) - 1

C10Case ==
    /\ Replied("get_mst_steps")
    /\ Cardinality(Components(G)) > 1

\* C10: on a graph of n nodes in c > 1 components each algorithm emits n - c
\* steps (a spanning forest that covers every component).
C10_SpanningForest ==
    C10Case =>
        Len(result.value) = Len(G.nodes) - Cardinality(Components(G))

-----------------------------------------------------------------------------
(* C11                                                                     *)

OtherMst(algorithm) == IF algorithm = "kruskal" THEN "prim" ELSE "kruskal"

C11Case ==
    /\ Replied("get_mst_steps")
    /\ IsConnectedGraph(G)

\* C11: on a connected graph the undirected edges emitted by kruskal are the
\* undirected edges emitted by prim, for either weight dimension, also when
\* several edges have the same weight.
C11_SameEdgeSet ==
    C11Case =>
        StepEdges(result.value)
            = StepEdges(get_mst_steps(G, OtherMst(call.algorithm), call.weight_key))

\* C11 as amended: on a connected graph kruskal and prim emit the same number
\* of steps with the same total weight in the chosen dimension; the edge sets
\* themselves may differ when several edges have the same weight.
C11_SameTotalWeight ==
    C11Case =>
        LET other == get_mst_steps(G, OtherMst(call.algorithm), call.weight_key)
        IN /\ Len(result.value) = Len(other)
           /\ StepSum(result.value, 1) = StepSum(other, 1)

\* a connected graph on which the two algorithms emit different edge sets
C11_Witness ==
    /\ C11Case
    /\ StepEdges(result.value)
           # StepEdges(get_mst_steps(G, OtherMst(call.algorithm), call.weight_key))
    /\ Len(result.value) = Len(G.nodes) - 1

-----------------------------------------------------------------------------
(* C12                                                                     *)

\* the position of node v in the graph's node enumeration
NodeIndex(g, v) == CHOOSE i \in 1..Len(g.nodes) : g.nodes[i] = v

Min(a, b) == IF a < b THEN a ELSE b

\* L is the top-N list of the scores: N entries (all nodes if fewer), each a
\* node with its score, no node twice, scores non-increasing, no left-out
\* node scoring higher than a listed one, and among nodes of equal score the
\* earlier-enumerated one first (and listed before any is left out)
IsTopList(g, L, scores, N) ==
    LET listed == {L[i][1] : i \in 1..Len(L)}
    IN /\ Len(L) = Min(N, Len(g.nodes))
       /\ Cardinality(listed) = Len(L)
       /\ \A i \in 1..Len(L) : L[i][1] \in NodeSet(g) /\ L[i][2] = scores[L[i][1]]
       /\ \A i, j \in 1..Len(L) :
              i < j => /\ ~RatLess(L[i][2], L[j][2])
                       /\ L[i][2] = L[j][2]
                              => NodeIndex(g, L[i][1]) < NodeIndex(g, L[j][1])
       /\ \A i \in 1..Len(L) : \A v \in NodeSet(g) \ listed :
              /\ ~RatLess(L[i][2], scores[v])
              /\ L[i][2] = scores[v] => NodeIndex(g, L[i][1]) < NodeIndex(g, v)

C12Case ==
    \/ Replied("calculate_betweenness_centrality")
    \/ Replied("calculate_advanced_metrics")

\* C12: every top-N list of calculate_betweenness_centrality and of
\* calculate_advanced_metrics (degree, closeness, clustering) has min(N, n)
\* entries in non-increasing score order, holds the N highest-scoring nodes,
\* and places nodes of equal score in the graph's node enumeration order.
C12_TopLists ==
    /\ Replied("calculate_betweenness_centrality") =>
           IsTopList(G, result.value, betweenness_centrality(G, "time"), call.top_n)
    /\ Replied("calculate_advanced_metrics") =>
           /\ IsTopList(G, result.value.degree, degree_centrality(G), call.top_n)
           /\ IsTopList(G, result.value.closeness, closeness_centrality(G, "time"),
                        call.top_n)
           /\ IsTopList(G, result.value.clustering, clustering(G), call.top_n)

\* a list cut below the number of nodes whose entries differ in score, with a
\* left-out node scoring the same as the last listed one
HasCutTie(g, L, scores) ==
    /\ Len(L) >= 2
    /\ Len(L) < Len(g.nodes)
    /\ L[1][2] # L[Len(L)][2]
    /\ \E v \in NodeSet(g) \ {L[i][1] : i \in 1..Len(L)} : scores[v] = L[Len(L)][2]

C12_Witness ==
    \/ /\ Replied("calculate_betweenness_centrality")
       /\ HasCutTie(G, result.value, betweenness_centrality(G, "time"))
    \/ /\ Replied("calculate_advanced_metrics")
       /\ HasCutTie(G, result.value.closeness, closeness_centrality(G, "time"))

-----------------------------------------------------------------------------
(* C13                                                                     *)

\* the 4-node ring A-B-C-D-A
IsRing(g) ==
    /\ NodeSet(g) = {"A", "B", "C", "D"}
    /\ EdgeSet(g) = {{"A", "B"}, {"B", "C"}, {"C", "D"}, {"D", "A"}}

C13Case ==
    /\ Replied("calculate_advanced_metrics")
    /\ IsRing(G)

\* C13: on the ring A-B-C-D-A every node's degree centrality equals 0.5.
C13_RingDegreeHalf ==
    C13Case =>
        \A i \in 1..Len(result.value.degree) : result.value.degree[i][2] = Rat(1, 2)

\* C13 as amended: on the ring A-B-C-D-A every node has two neighbours among
\* n - 1 = 3 other nodes, so every node's degree centrality equals 2/3.
C13_RingDegreeTwoThirds ==
    C13Case =>
        /\ Len(result.value.degree) = Min(call.top_n, 4)
        /\ \A i \in 1..Len(result.value.degree) : result.value.degree[i][2] = Rat(2, 3)

\* the ring, asked for at least as many entries as it has nodes
C13_Witness ==
    /\ C13Case
    /\ {result.value.degree[i][1] : i \in 1..Len(result.value.degree)} = NodeSet(G)

-----------------------------------------------------------------------------
(* C14                                                                     *)

\* the graph as create_railway_network built it from the tables
BuiltGraph == create_railway_network(CITIES, RAILWAY_EDGES)

\* what the call in progress returns when it is the first call on g
FirstResult(g) ==
    IF call.op = "find_dual_paths"
    THEN find_dual_paths(g, call.start, call.end, call.algorithm)
    ELSE IF call.op = "find_multi_stop_path"
    THEN find_multi_stop_path(g, call.start, call.end, call.waypoints)
    ELSE IF call.op = "get_mst_steps"
    THEN Return(get_mst_steps(g, call.algorithm, call.weight_key))
    ELSE IF call.op = "calculate_betweenness_centrality"
    THEN Return(calculate_betweenness_centrality(g, call.top_n))
    ELSE Return(calculate_advanced_metrics(g, call.top_n))

\* the call in progress ended without a route: an exception, an error reply,
\* or a record whose paths are both None
EndedWithoutRoute ==
    /\ pc = "replying"
    /\ call.op \in {"find_dual_paths", "find_multi_stop_path"}
    /\ \/ result.exc # ""
       \/ /\ result.exc = ""
          /\ \/ "error" \in Keys(result.value)
             \/ /\ "time_path" \in Keys(result.value)
                /\ result.value.time_path = None
                /\ result.value.cost_path = None

\* C14: after any sequence of calls, whatever their outcomes, the graph has
\* the nodes, edges, positions and weights it was built with, and the call in
\* progress returns what it returns as the first call on that graph.
C14_GraphUnchanged ==
    pc # "import" =>
        /\ G = BuiltGraph
        /\ pc = "replying" => result = FirstResult(G)

\* a call on a graph with railways that ended without a route
C14_Witness ==
    /\ EndedWithoutRoute
    /\ G.data # <<>>
    /\ G = BuiltGraph

-----------------------------------------------------------------------------
(* C15                                                                     *)

C15Case ==
    /\ Replied("find_dual_paths")
    /\ call.algorithm = "bfs"
    /\ Connected(G, call.start, call.end)

\* C15: for a reachable pair the bfs strategy returns one path from start to
\* end with the fewest edges of all such paths, as time_path and as cost_path
\* alike; total_time and cost_path_time are its time, total_cost and
\* time_path_cost its cost, and the two detail lists are the same.
C15_BfsSinglePath ==
    C15Case =>
        /\ result.exc = ""
        /\ LET r == result.value
           IN /\ {"time_path", "cost_path", "total_time", "total_cost",
                   "time_path_cost", "cost_path_time", "time_details",
                   "cost_details"} \subseteq Keys(r)
              /\ IsWalk(G, r.time_path, call.start, call.end)
              /\ \A p \in Walks(G, call.start, call.end) : Len(r.time_path) <= Len(p)
              /\ r.cost_path = r.time_path
              /\ r.total_time = WeightOf(G, r.time_path, "time")
              /\ r.cost_path_time = r.total_time
              /\ r.total_cost = WeightOf(G, r.time_path, "cost")
              /\ r.time_path_cost = r.total_cost
              /\ r.time_details = r.cost_details
              /\ Len(r.time_details) = Len(r.time_path) - 1

\* a reachable pair whose path of fewest edges is not its fastest path
C15_Witness ==
    /\ C15Case
    /\ call.start # call.end
    /\ result.exc = ""
    /\ "total_time" \in Keys(result.value)
    /\ result.value.total_time > OptDist(G, call.start, call.end, "time")

-----------------------------------------------------------------------------
(* C16                                                                     *)

C16Case ==
    /\ Replied("get_mst_steps")
    /\ call.algorithm = "kruskal"

\* edge i of the enumeration is considered before edge j: it is lighter, or
\* as heavy and enumerated earlier
ConsideredBefore(enum, i, j) ==
    \/ enum[i][3] < enum[j][3]
    \/ enum[i][3] = enum[j][3] /\ i < j

\* the enumeration indices of the edges the steps emit
EmittedIndices(enum, steps) ==
    {i \in 1..Len(enum) :
        \E k \in 1..Len(steps) :
            steps[k].u = enum[i][1] /\ steps[k].v = enum[i][2]
                /\ steps[k].weight = enum[i][3]}

\* the endpoints of edge i are joined by the emitted edges considered before it
JoinedBefore(enum, steps, i) ==
    enum[i][2] \in
        ClosureIn({{enum[j][1], enum[j][2]} :
                     j \in {x \in EmittedIndices(enum, steps) :
                               ConsideredBefore(enum, x, i)}},
                  {enum[i][1]})

\* C16: kruskal considers the edges by non-decreasing weight, edges of equal
\* weight in the graph's edge enumeration order: the steps have non-decreasing
\* weights and appear in the order of consideration, an edge is emitted exactly
\* when the edges emitted before its consideration do not join its endpoints,
\* and every step is an "add" (a rejected edge leaves no step).
C16_KruskalOrder ==
    C16Case =>
        LET enum == edges_of(G, call.weight_key)
            steps == result.value
        IN /\ \A k \in 1..Len(steps) : steps[k].action = "add"
           /\ \A k \in 1..(Len(steps) - 1) : steps[k].weight <= steps[k + 1].weight
           /\ Cardinality(EmittedIndices(enum, steps)) = Len(steps)
           /\ \A k \in 1..(Len(steps) - 1) :
                  \E i, j \in 1..Len(enum) :
                      /\ steps[k].u = enum[i][1] /\ steps[k].v = enum[i][2]
                      /\ steps[k + 1].u = enum[j][1] /\ steps[k + 1].v = enum[j][2]
                      /\ ConsideredBefore(enum, i, j)
           /\ \A i \in 1..Len(enum) :
                  i \in EmittedIndices(enum, steps) <=> ~JoinedBefore(enum, steps, i)

\* a kruskal run that rejected an edge as heavy as one it emitted
C16_Witness ==
    /\ C16Case
    /\ LET enum == edges_of(G, call.weight_key)
           steps == result.value
       IN \E i, j \in 1..Len(enum) :
              /\ i \notin EmittedIndices(enum, steps)
              /\ j \in EmittedIndices(enum, steps)
              /\ enum[i][3] = enum[j][3]

-----------------------------------------------------------------------------
(* C17                                                                     *)

C17Case ==
    /\ Replied("get_mst_steps")
    /\ call.algorithm = "prim"

\* the nodes visited when step k is emitted
VisitedBefore(g, steps, k) == {g.nodes[1]} \cup {steps[j].v : j \in 1..(k - 1)}

\* the frontier candidates that can still be emitted: the edges from a
\* visited node to an unvisited one
Crossing(g, V) == {e \in DOMAIN g.data : e[1] \in V /\ e[2] \notin V}

\* the step at which u was visited (0 for the start node)
JoinIndex(g, steps, u) ==
    IF u = g.nodes[1] THEN 0 ELSE CHOOSE j \in 1..Len(steps) : steps[j].v = u

AdjPos(g, u, v) == CHOOSE i \in 1..Len(g.adj[u]) : g.adj[u][i] = v

\* candidate e entered the frontier before candidate f: its source was
\* visited earlier, or it comes earlier in their common source's adjacency
PushedBefore(g, steps, e, f) ==
    \/ JoinIndex(g, steps, e[1]) < JoinIndex(g, steps, f[1])
    \/ /\ e[1] = f[1]
       /\ AdjPos(g, e[1], e[2]) < AdjPos(g, f[1], f[2])

\* candidate e precedes f in the order of the node identifiers
NamedBefore(e, f) ==
    \/ NameLess(e[1], f[1])
    \/ e[1] = f[1] /\ NameLess(e[2], f[2])

\* the search starts at the first node, every step goes from a visited node
\* to an unvisited one along a lightest crossing edge, and it runs until no
\* edge crosses
PrimFrontierSteps(g, steps, d) ==
    /\ Len(steps) > 0 => steps[1].u = g.nodes[1]
    /\ \A k \in 1..Len(steps) :
          /\ <<steps[k].u, steps[k].v>> \in Crossing(g, VisitedBefore(g, steps, k))
          /\ steps[k].weight = g.data[<<steps[k].u, steps[k].v>>][d]
          /\ \A f \in Crossing(g, VisitedBefore(g, steps, k)) :
                 steps[k].weight <= g.data[f][d]
    /\ Crossing(g, VisitedBefore(g, steps, Len(steps) + 1)) = {}

\* C17: prim starts at the first node of the enumeration, each step has its
\* source visited and its target unvisited when emitted, and of several
\* lightest candidates the one pushed into the frontier first is extracted.
C17_PrimInsertionOrder ==
    C17Case =>
        LET steps == result.value
            d == call.weight_key
        IN /\ PrimFrontierSteps(G, steps, d)
           /\ \A k \in 1..Len(steps) :
                  \A f \in Crossing(G, VisitedBefore(G, steps, k)) :
                      (G.data[f][d] = steps[k].weight /\ f # <<steps[k].u, steps[k].v>>)
                          => PushedBefore(G, steps, <<steps[k].u, steps[k].v>>, f)

\* C17 as amended: the same, except that of several lightest candidates the
\* one whose (source, target) identifiers compare least is extracted, whatever
\* the order in which they were pushed.
C17_PrimNameOrder ==
    C17Case =>
        LET steps == result.value
            d == call.weight_key
        IN /\ PrimFrontierSteps(G, steps, d)
           /\ \A k \in 1..Len(steps) :
                  \A f \in Crossing(G, VisitedBefore(G, steps, k)) :
                      (G.data[f][d] = steps[k].weight /\ f # <<steps[k].u, steps[k].v>>)
                          => NamedBefore(<<steps[k].u, steps[k].v>>, f)

\* a step taken among several lightest candidates, one of which was pushed
\* before the one extracted
C17_Witness ==
    /\ C17Case
    /\ LET steps == result.value
           d == call.weight_key
       IN \E k \in 1..Len(steps) :
              \E f \in Crossing(G, VisitedBefore(G, steps, k)) :
                  /\ G.data[f][d] = steps[k].weight
                  /\ PushedBefore(G, steps, f, <<steps[k].u, steps[k].v>>)

====
